---- MODULE Spec2Model ----
(***************************************************************************)
(* The scripts of examples/ai-assisted-qa.                                 *)
(*                                                                         *)
(* rag-implementation, the retrieval-augmented question-answering service: *)
(* rag_pipeline.py (RAGConfig, DocumentProcessor, VectorStore, RAGPipeline)*)
(* and api.py (the FastAPI handlers).                                      *)
(*   Spec         the API server.  Every handler of api.py is an           *)
(*                `async def` without an await, so a handler runs to       *)
(*                completion on the event loop: one action per handler.    *)
(*                ingest_task is a plain function handed to                *)
(*                BackgroundTasks, so it runs beside the handlers: it is   *)
(*                an action of its own, after the one that queued it.      *)
(*   SpecSessions the same server once an ingested index is loaded, with   *)
(*                queries and clears only and longer histories.            *)
(*   SpecThreads  RAGPipeline.query called from several threads on one     *)
(*                pipeline object; the statements of query and of          *)
(*                get_or_create_memory interleave.                         *)
(*   SpecClear    the same threads, one query each, beside calls of        *)
(*                clear_session, initialize_from_documents and             *)
(*                load_existing.                                           *)
(*   SpecSearch   VectorStore.similarity_search on arbitrary index         *)
(*                contents.                                                *)
(*   SpecIngest   RAGPipeline.initialize_from_documents called repeatedly  *)
(*                on one pipeline and one directory.                       *)
(*   SpecLoad     DocumentProcessor.load_documents_from_directory on       *)
(*                arbitrary directory trees.                               *)
(*   SpecChunks   DocumentProcessor.chunk_documents, with the text         *)
(*                splitter it is built on, on arbitrary documents.         *)
(*   SpecProcess  DocumentProcessor.process_documents when the splitter    *)
(*                raises on some of the documents.                         *)
(*                                                                         *)
(* code-review-automation: ai_code_reviewer.py and                         *)
(* .github/scripts/ai_review.py.                                           *)
(*   SpecReview   AICodeReviewer._parse_review_response on arbitrary       *)
(*                responses.                                               *)
(*   SpecCI       review_files and main of the review script on arbitrary  *)
(*                file lists.                                              *)
(*                                                                         *)
(* Floats are scaled by ten: a confidence of 0.7 is 7, the similarity      *)
(* threshold 0.7 is 7, a score 0.9 is 9.                                   *)
(***************************************************************************)
EXTENDS Integers, Sequences, FiniteSets, TLC

VARIABLES
    app,                  \* "starting" | "serving" | "failed": lifespan of the FastAPI app
    rag_pipeline,         \* api.py global: FALSE is None, TRUE is a RAGPipeline
    vectorstore,          \* VectorStore.vectorstore: "None" | "Chroma"
    collection,           \* number of chunks held by the persisted Chroma collection
    conversation_memory,  \* RAGPipeline.conversation_memory: session_id -> memory object
    heap,                 \* memory object -> its chat history, a sequence of <<question, answer>>
    request,              \* the request handled last
    response,             \* the response to it
    ingest,               \* the background ingestion task
    call_log,             \* history variable: per session, the successful calls since it was last absent
    cleared,              \* history variable: the sessions that were cleared while present; in
                          \* SpecClear, the sessions cleared with no query on them begun since
    thread,               \* SpecThreads: per thread, the frame of its RAGPipeline.query call
    search,               \* SpecSearch: the last similarity_search call and what it returned
    external_calls,       \* history variable: the calls of external services, in order, made for the last request
    ingested,             \* SpecIngest: the directory and the calls of initialize_from_documents made on it
    docs                  \* SpecLoad, SpecChunks: the DocumentProcessor call made last and what it returned

vars == <<app, rag_pipeline, vectorstore, collection, conversation_memory, heap,
          request, response, ingest, call_log, cleared, thread, search,
          external_calls, ingested, docs>>

----------------------------------------------------------------------------
(* Bounds of the model *)

\* Spec: turns held over all sessions before the model stops issuing session queries
MaxTurns == 2

\* SpecSessions: the same, with room for a history longer than max_history_length
MaxSessionTurns == 6

\* chunks the collection can hold in the model
MaxChunks == 3

\* largest k passed to similarity_search
MaxK == 3

\* calls of RAGPipeline.query made by the threads of SpecThreads
MaxCalls == 2

\* SpecLoad: files in the directory tree
MaxFiles == 3

\* SpecIngest: calls of initialize_from_documents
MaxIngestCalls == 2

\* SpecChunks: characters of a document chunked alone
MaxLen == 5

\* SpecChunks: documents chunked in one call
MaxDocs == 3

\* lines of a review response
MaxLines == 4

\* files named on the command line of the review script
MaxReviewed == 3

Sessions == {"s1", "s2"}
Questions == {"q1", "q2"}
\* texts that QueryRequest refuses: the empty one, and one of max_length + 1 characters
InvalidQuestions == {"", "q1001"}
Answers == {"a1"}
Scores == {2, 6, 7, 9}
Threads == {"t1", "t2"}
NoSession == "None"

----------------------------------------------------------------------------
(* RAGConfig *)

top_k_results == 3

\* 0.7
similarity_threshold == 7

max_history_length == 5

\* RAGConfig.chunk_size (1000) and RAGConfig.chunk_overlap (200), scaled down
\* to the texts of the model
chunk_size == 3

chunk_overlap == 1

----------------------------------------------------------------------------
(* api.py: QueryRequest.question = Field(..., min_length=1, max_length=1000) *)

min_length == 1

max_length == 1000

\* len(question) for the texts of the model: "q1" stands for a question of one
\* character, "q2" for one of max_length characters
len(question) ==
    IF question = "" THEN 0
    ELSE IF question = "q1" THEN 1
    ELSE IF question = "q2" THEN max_length
    ELSE max_length + 1

\* the length bounds left out: every text is let through to the handler
QueryRequest_unbounded(question) ==
    TRUE

\* pydantic validation of the request body, run by FastAPI before the handler is called
QueryRequest(question) ==
    min_length <= len(question) /\ len(question) <= max_length

----------------------------------------------------------------------------
(* The embedding space.  The distance of a stored chunk from a question is *)
(* a fixed function of the two texts; the rows below give, per question,   *)
(* the distance of chunk 1, 2, 3, ... (repeating).                         *)

DistanceRow(q) ==
    IF q = "q1" THEN <<2, 7, 9, 4>> ELSE <<9, 3, 7, 7>>

Distance(q, c) ==
    DistanceRow(q)[((c - 1) % Len(DistanceRow(q))) + 1]

\* the distances of the stored chunks from question q
Distances(q, n) ==
    [c \in 1..n |-> Distance(q, c)]

RECURSIVE NearestFirst(_, _, _)
NearestFirst(dist, S, k) ==
    IF k = 0 \/ S = {}
    THEN <<>>
    ELSE LET c == CHOOSE x \in S : \A y \in S :
                      dist[x] < dist[y] \/ (dist[x] = dist[y] /\ x <= y)
         IN  <<[doc |-> c, score |-> dist[c]]>> \o NearestFirst(dist, S \ {c}, k - 1)

\* Chroma.similarity_search_with_score: the k nearest stored chunks, nearest
\* first, each with its distance from the query (a lower score is nearer).
similarity_search_with_score(dist, k) ==
    NearestFirst(dist, DOMAIN dist, k)

\* VectorStore.similarity_search: k = 0 stands for k=None (and for k=0: `k or`)
similarity_search(dist, k) ==
    LET kk == IF k = 0 THEN top_k_results ELSE k
        results == similarity_search_with_score(dist, kk)
    IN  SelectSeq(results, LAMBDA r : r.score >= similarity_threshold)

\* vectorstore.as_retriever(search_kwargs={"k": top_k_results}): the retriever
\* of the chain, search_type "similarity"; it returns the documents only.
as_retriever(dist) ==
    LET results == similarity_search_with_score(dist, top_k_results)
    IN  [i \in 1..Len(results) |-> results[i].doc]

----------------------------------------------------------------------------
(* RAGPipeline: confidence and session memory *)

\* the last threshold off by one: three sources fall through to 0.5
_calculate_confidence_above3(source_docs) ==
    IF Len(source_docs) = 0 THEN 0
    ELSE IF Len(source_docs) > 3 THEN 9
    ELSE IF Len(source_docs) = 2 THEN 7
    ELSE 5

_calculate_confidence(source_docs) ==
    IF Len(source_docs) = 0 THEN 0
    ELSE IF Len(source_docs) >= 3 THEN 9
    ELSE IF Len(source_docs) = 2 THEN 7
    ELSE 5

Restrict(f, S) == [x \in S |-> f[x]]

\* the identity of a new object: any identity not in use.  The model takes the
\* least unused one of the residue class of the session, so that the same
\* session map is not explored once per naming of its objects.
SessionIndex(s) == IF s = "s1" THEN 0 ELSE 1

FreshId(hp, s) ==
    CHOOSE i \in 1..(2 * Cardinality(DOMAIN hp) + 2) :
        /\ i \notin DOMAIN hp
        /\ i % 2 = SessionIndex(s)
        /\ \A j \in 1..(i - 1) : j % 2 = SessionIndex(s) => j \in DOMAIN hp

\* objects are reclaimed when neither the session map nor a running query holds them
Collect(hp, cm, th) ==
    Restrict(hp, {cm[s] : s \in DOMAIN cm} \cup ({th[t].memory : t \in DOMAIN th} \ {0}))

\* get_or_create_memory run without interruption: the session map, the heap
\* and the returned object
get_or_create_memory(cm, hp, session_id) ==
    IF session_id \notin DOMAIN cm
    THEN LET id == FreshId(hp, session_id)
         IN  [cm |-> cm @@ (session_id :> id), heap |-> hp @@ (id :> <<>>), memory |-> id]
    ELSE [cm |-> cm, heap |-> hp, memory |-> cm[session_id]]

\* the turn put in front of the history instead of behind it
save_context_prepend(hp, memory, question, answer) ==
    [hp EXCEPT ![memory] = <<(<<question, answer>>)>> \o @]

\* ConversationBufferMemory.save_context, called by the chain after a successful run
save_context(hp, memory, question, answer) ==
    [hp EXCEPT ![memory] = Append(@, <<question, answer>>)]

\* del of a key: the map without it, or KeyError when the key is absent
Del(cm, key) ==
    IF key \in DOMAIN cm
    THEN [cm |-> Restrict(cm, DOMAIN cm \ {key}), raised |-> FALSE]
    ELSE [cm |-> cm, raised |-> TRUE]

\* the membership test left out: del on an absent key raises
clear_session_unguarded(cm, session_id) ==
    Del(cm, session_id)

\* the deletion left out: the session stays in the map
clear_session_keep_key(cm, session_id) ==
    [cm |-> cm, raised |-> FALSE]

\* the whole map emptied instead of one key deleted
clear_session_all(cm, session_id) ==
    [cm |-> <<>>, raised |-> FALSE]

clear_session(cm, session_id) ==
    IF session_id \in DOMAIN cm
    THEN Del(cm, session_id)
    ELSE [cm |-> cm, raised |-> FALSE]

History(s) == heap[conversation_memory[s]]

RECURSIVE SumLen(_)
SumLen(S) ==
    IF S = {} THEN 0
    ELSE LET x == CHOOSE y \in S : TRUE IN Len(heap[x]) + SumLen(S \ {x})

TotalTurns == SumLen(DOMAIN heap)

\* the cap of the model on the turns held: a query with a session is issued below it
TurnsBelow(session_id, max) == session_id # NoSession => TotalTurns < max

----------------------------------------------------------------------------
(* Requests and responses *)

NoRequest == [op |-> "none", question |-> "", session_id |-> NoSession]

NoResponse ==
    [status |-> 0, answer |-> "", sources |-> <<>>, confidence |-> 0, session_id |-> NoSession]

ErrorResponse(code) ==
    [status |-> code, answer |-> "", sources |-> <<>>, confidence |-> 0, session_id |-> NoSession]

\* failed is a history field: an earlier call of the thread raised
IdleThreads == [t \in Threads |-> [pc |-> "idle", question |-> "", session_id |-> NoSession,
                                   memory |-> 0, answer |-> "", failed |-> FALSE]]

\* HealthResponse(status, version, vectorstore_ready, timestamp)
HealthResponse(status, vectorstore_ready) ==
    [status |-> 200, answer |-> status, sources |-> <<>>, confidence |-> 0,
     session_id |-> NoSession, vectorstore_ready |-> vectorstore_ready]

NoSearch == [dist |-> <<>>, k |-> 0, results |-> <<>>]

NoIngested == [directory |-> 0, calls |-> <<>>]

NoDocs == [op |-> "none", input |-> <<>>, output |-> <<>>]

Init ==
    /\ app = "starting"
    /\ rag_pipeline = FALSE
    /\ vectorstore = "None"
    /\ collection \in {0, MaxChunks}
    /\ conversation_memory = <<>>
    /\ heap = <<>>
    /\ request = NoRequest
    /\ response = NoResponse
    /\ ingest = [pc |-> "idle"]
    /\ call_log = [s \in Sessions |-> <<>>]
    /\ cleared = {}
    /\ thread = IdleThreads
    /\ search = NoSearch
    /\ external_calls = <<>>
    /\ ingested = NoIngested
    /\ docs = NoDocs

----------------------------------------------------------------------------
(* api.py *)

\* the inner try/except left out: a failure of load_existing fails the
\* startup, with the pipeline already assigned
startup_event_load_raises ==
    /\ app = "starting"
    /\ \E outcome \in {"loaded", "load_failed", "init_failed"} :
        /\ app' = IF outcome = "loaded" THEN "serving" ELSE "failed"
        /\ rag_pipeline' = (outcome # "init_failed")
        /\ vectorstore' = IF outcome = "loaded" THEN "Chroma" ELSE "None"
    /\ UNCHANGED <<collection, conversation_memory, heap, request, response, ingest,
                   call_log, cleared, thread, search,
                   external_calls, ingested, docs>>

\* startup_event: build the pipeline, then try to load the persisted index
startup_event ==
    /\ app = "starting"
    /\ \E outcome \in {"loaded", "load_failed", "init_failed"} :
        /\ app' = IF outcome = "init_failed" THEN "failed" ELSE "serving"
        /\ rag_pipeline' = (outcome # "init_failed")
        /\ vectorstore' = IF outcome = "loaded" THEN "Chroma" ELSE "None"
    /\ UNCHANGED <<collection, conversation_memory, heap, request, response, ingest,
                   call_log, cleared, thread, search,
                   external_calls, ingested, docs>>

\* RAGPipeline.query, as one uninterrupted call.  outcome is what the chain
\* does: "ok", or an exception raised by retrieval or by the language model.
\* a call of an external service and whether it raised
Call(service, raised) == [service |-> service, raised |-> raised]

\* the calls a run of the chain makes: with chat history the language model
\* condenses the question first; then the retriever; then the language model
\* answers. The run ends at the first call that raises.
chain_calls(has_history, outcome) ==
    (IF has_history THEN <<Call("llm", FALSE)>> ELSE <<>>)
      \o (IF outcome = "retrieval_error"
          THEN <<Call("retriever", TRUE)>>
          ELSE <<Call("retriever", FALSE), Call("llm", outcome = "llm_error")>>)

\* a query that keeps the turns of callers without session_id under a default id
query_default_session(question, session_id, outcome, answer) ==
    LET goc == get_or_create_memory(conversation_memory, heap,
                                    IF session_id # NoSession THEN session_id ELSE "s1")
        source_documents == as_retriever(Distances(question, collection))
        calls == chain_calls(goc.memory # 0 /\ goc.heap[goc.memory] # <<>>, outcome)
    IN  IF outcome = "ok"
        THEN [cm |-> goc.cm,
              heap |-> IF goc.memory # 0
                       THEN save_context(goc.heap, goc.memory, question, answer)
                       ELSE goc.heap,
              raised |-> FALSE,
              calls |-> calls,
              result |-> [status |-> 200, answer |-> answer, sources |-> source_documents,
                          confidence |-> _calculate_confidence(source_documents),
                          session_id |-> session_id]]
        ELSE [cm |-> goc.cm, heap |-> goc.heap, raised |-> TRUE,
              calls |-> calls,
              result |-> NoResponse]

query(question, session_id, outcome, answer) ==
    LET goc == IF session_id # NoSession
               THEN get_or_create_memory(conversation_memory, heap, session_id)
               ELSE [cm |-> conversation_memory, heap |-> heap, memory |-> 0]
        source_documents == as_retriever(Distances(question, collection))
        calls == chain_calls(goc.memory # 0 /\ goc.heap[goc.memory] # <<>>, outcome)
    IN  IF outcome = "ok"
        THEN [cm |-> goc.cm,
              heap |-> IF goc.memory # 0
                       THEN save_context(goc.heap, goc.memory, question, answer)
                       ELSE goc.heap,
              raised |-> FALSE,
              calls |-> calls,
              result |-> [status |-> 200, answer |-> answer, sources |-> source_documents,
                          confidence |-> _calculate_confidence(source_documents),
                          session_id |-> session_id]]
        ELSE [cm |-> goc.cm, heap |-> goc.heap, raised |-> TRUE,
              calls |-> calls,
              result |-> NoResponse]

query_knowledge_base(question, session_id) ==
    /\ app = "serving"
    /\ request' = [op |-> "query", question |-> question, session_id |-> session_id]
    /\ IF ~QueryRequest(question)
       THEN /\ response' = ErrorResponse(422)
            /\ external_calls' = <<>>
            /\ UNCHANGED <<conversation_memory, heap, call_log>>
       ELSE IF ~rag_pipeline \/ vectorstore = "None"
       THEN /\ response' = ErrorResponse(503)
            /\ external_calls' = <<>>
            /\ UNCHANGED <<conversation_memory, heap, call_log>>
       ELSE \E outcome \in {"ok", "retrieval_error", "llm_error"}, answer \in Answers :
                LET r == query(question, session_id, outcome, answer)
                IN  /\ conversation_memory' = r.cm
                    /\ heap' = r.heap
                    /\ external_calls' = r.calls
                    /\ response' = IF r.raised THEN ErrorResponse(500) ELSE r.result
                    /\ call_log' = IF ~r.raised /\ session_id # NoSession
                                   THEN [call_log EXCEPT ![session_id] =
                                            Append(@, <<question, answer>>)]
                                   ELSE call_log
    /\ UNCHANGED <<app, rag_pipeline, vectorstore, collection, ingest, cleared, thread, search,
                   ingested, docs>>

\* DELETE /session/{session_id}
delete_session(session_id) ==
    /\ app = "serving"
    /\ request' = [op |-> "clear", question |-> "", session_id |-> session_id]
    /\ IF ~rag_pipeline
       THEN /\ response' = ErrorResponse(503)
            /\ UNCHANGED <<conversation_memory, heap, call_log, cleared>>
       ELSE LET r == clear_session(conversation_memory, session_id)
            IN  /\ conversation_memory' = r.cm
                /\ heap' = Collect(heap, r.cm, thread)
                /\ call_log' = IF session_id \in DOMAIN r.cm
                               THEN call_log
                               ELSE [call_log EXCEPT ![session_id] = <<>>]
                /\ cleared' = IF session_id \in DOMAIN conversation_memory \ DOMAIN r.cm
                              THEN cleared \cup {session_id}
                              ELSE cleared
                /\ response' = IF r.raised
                               THEN ErrorResponse(500)
                               ELSE [NoResponse EXCEPT !.status = 200]
    /\ external_calls' = <<>>
    /\ UNCHANGED <<app, rag_pipeline, vectorstore, collection, ingest, thread, search,
                   ingested, docs>>

\* POST /session: the handler makes up an id (user_id or 'anonymous', then eight
\* hex digits of a uuid4) and returns it; it does not look at rag_pipeline and
\* calls nothing of it. The id is one no session is stored under.
create_session(session_id) ==
    /\ app = "serving"
    /\ session_id \notin DOMAIN conversation_memory
    /\ request' = [op |-> "create", question |-> "", session_id |-> NoSession]
    /\ response' = [NoResponse EXCEPT !.status = 200, !.session_id = session_id]
    /\ external_calls' = <<>>
    /\ UNCHANGED <<app, rag_pipeline, vectorstore, collection, conversation_memory, heap,
                   ingest, call_log, cleared, thread, search, ingested, docs>>

\* GET /stats: "active_sessions": len(rag_pipeline.conversation_memory)
active_sessions == Cardinality(DOMAIN conversation_memory)

\* GET /health
health_check ==
    /\ app = "serving"
    /\ request' = [op |-> "health", question |-> "", session_id |-> NoSession]
    /\ response' = HealthResponse(IF rag_pipeline THEN "healthy" ELSE "initializing",
                                  IF rag_pipeline THEN vectorstore # "None" ELSE FALSE)
    /\ external_calls' = <<>>
    /\ UNCHANGED <<app, rag_pipeline, vectorstore, collection, conversation_memory, heap,
                   ingest, call_log, cleared, thread, search, ingested, docs>>

\* what a call of initialize_from_documents meets: nothing; an exception while
\* the documents are processed; an exception in Chroma.from_documents, which
\* embeds the chunks and then adds them; an exception in persist()
IngestOutcomes == {"ok", "processing_error", "embedding_error", "persist_error"}

\* the chunks are matched with what the collection holds, so a chunk ingested
\* before is not added again
initialize_from_documents_upsert(store, count, n, outcome) ==
    IF outcome \in {"processing_error", "embedding_error"}
    THEN [vectorstore |-> store, collection |-> count, raised |-> TRUE]
    ELSE [vectorstore |-> "Chroma",
          collection |-> IF count >= n THEN count ELSE n,
          raised |-> outcome = "persist_error"]

\* RAGPipeline.initialize_from_documents on a pipeline whose store reference is
\* `store` and whose collection holds `count` chunks: process_documents yields
\* n chunks, then VectorStore.create_vectorstore.  Line 188 assigns
\* self.vectorstore what Chroma.from_documents returns, the store with the n
\* chunks added under new ids; if that call raises nothing is assigned.  Line
\* 195 calls persist() on the store already assigned.
initialize_from_documents(store, count, n, outcome) ==
    IF outcome \in {"processing_error", "embedding_error"}
    THEN [vectorstore |-> store, collection |-> count, raised |-> TRUE]
    ELSE [vectorstore |-> "Chroma", collection |-> count + n,
          raised |-> outcome = "persist_error"]

\* the ingestion run inside the handler, its outcome answered to the caller
ingest_documents_blocking ==
    /\ app = "serving"
    /\ ingest.pc = "idle"
    /\ request' = [op |-> "ingest", question |-> "", session_id |-> NoSession]
    /\ \E n \in 0..(MaxChunks - collection), outcome \in IngestOutcomes :
        LET r == initialize_from_documents(vectorstore, collection, n, outcome)
        IN  /\ vectorstore' = r.vectorstore
            /\ collection' = r.collection
            /\ response' = IF r.raised THEN ErrorResponse(500)
                           ELSE [NoResponse EXCEPT !.status = 200]
    /\ external_calls' = <<>>
    /\ UNCHANGED <<app, rag_pipeline, conversation_memory, heap, ingest,
                   call_log, cleared, thread, search, ingested, docs>>

\* POST /ingest: the task is queued and the request acknowledged
ingest_documents ==
    /\ app = "serving"
    /\ ingest.pc = "idle"
    /\ request' = [op |-> "ingest", question |-> "", session_id |-> NoSession]
    /\ IF ~rag_pipeline
       THEN /\ response' = ErrorResponse(503)
            /\ UNCHANGED ingest
       ELSE /\ response' = [NoResponse EXCEPT !.status = 200]
            /\ ingest' = [pc |-> "running"]
    /\ external_calls' = <<>>
    /\ UNCHANGED <<app, rag_pipeline, vectorstore, collection, conversation_memory, heap,
                   call_log, cleared, thread, search,
                   ingested, docs>>

\* ingest_task: it works on its own data until it assigns the store, so it is
\* one step beside the handlers; an exception is logged and swallowed
ingest_task ==
    /\ ingest.pc = "running"
    /\ \E n \in 0..(MaxChunks - collection), outcome \in IngestOutcomes :
        LET r == initialize_from_documents(vectorstore, collection, n, outcome)
        IN  /\ vectorstore' = r.vectorstore
            /\ collection' = r.collection
    /\ ingest' = [pc |-> "idle"]
    /\ UNCHANGED <<app, rag_pipeline, conversation_memory, heap, request, response,
                   call_log, cleared, thread, search,
                   external_calls, ingested, docs>>

Next ==
    \/ startup_event
    \/ \E q \in Questions \cup InvalidQuestions, s \in Sessions \cup {NoSession} :
          TurnsBelow(s, MaxTurns) /\ query_knowledge_base(q, s)
    \/ \E s \in Sessions : delete_session(s)
    \/ \E s \in Sessions : create_session(s)
    \/ health_check
    \/ ingest_documents
    \/ ingest_task

Spec == Init /\ [][Next]_vars

----------------------------------------------------------------------------
(* SpecSessions: the server after a startup that loaded an ingested index, *)
(* serving queries and clears only; histories may outgrow                   *)
(* max_history_length.                                                      *)

InitSessions ==
    /\ app = "serving"
    /\ rag_pipeline = TRUE
    /\ vectorstore = "Chroma"
    /\ collection = MaxChunks
    /\ conversation_memory = <<>>
    /\ heap = <<>>
    /\ request = NoRequest
    /\ response = NoResponse
    /\ ingest = [pc |-> "idle"]
    /\ call_log = [s \in Sessions |-> <<>>]
    /\ cleared = {}
    /\ thread = IdleThreads
    /\ search = NoSearch
    /\ external_calls = <<>>
    /\ ingested = NoIngested
    /\ docs = NoDocs

NextSessions ==
    \/ \E q \in Questions, s \in Sessions \cup {NoSession} :
          TurnsBelow(s, MaxSessionTurns) /\ query_knowledge_base(q, s)
    \/ \E s \in Sessions : delete_session(s)

SpecSessions == InitSessions /\ [][NextSessions]_vars

----------------------------------------------------------------------------
(* SpecThreads: RAGPipeline.query (lines 296-352) and get_or_create_memory  *)
(* (lines 277-294) statement by statement, on a pipeline whose store is     *)
(* loaded.  Nothing in either method takes a lock.                          *)

InFlight == {t \in Threads : thread[t].pc \notin {"idle", "returned", "raised"}}

\* a thread enters query(question, session_id)
t_call(t, question, session_id) ==
    /\ thread[t].pc = "idle"
    /\ TotalTurns + Cardinality(InFlight) < MaxCalls
    /\ thread' = [thread EXCEPT ![t] = [pc |-> "l316", question |-> question,
                                        session_id |-> session_id, memory |-> 0,
                                        answer |-> "", failed |-> thread[t].failed]]
    /\ cleared' = cleared \ {session_id}
    /\ UNCHANGED <<app, rag_pipeline, vectorstore, collection, conversation_memory, heap,
                   request, response, ingest, call_log, search,
                   external_calls, ingested, docs>>

\* line 316 `if session_id:` and line 287 `if session_id not in self.conversation_memory:`
t_check(t) ==
    /\ thread[t].pc = "l316"
    /\ thread' = [thread EXCEPT ![t].pc =
                      IF thread[t].session_id = NoSession THEN "l331"
                      ELSE IF thread[t].session_id \notin DOMAIN conversation_memory
                           THEN "l288"
                           ELSE "l294"]
    /\ UNCHANGED <<app, rag_pipeline, vectorstore, collection, conversation_memory, heap,
                   request, response, ingest, call_log, cleared, search,
                   external_calls, ingested, docs>>

\* line 288: a new ConversationBufferMemory is stored under session_id,
\* whatever the map holds for it by now
t_create(t) ==
    /\ thread[t].pc = "l288"
    /\ LET s == thread[t].session_id
           id == FreshId(heap, s)
       IN  /\ conversation_memory' =
                  IF s \in DOMAIN conversation_memory
                  THEN [conversation_memory EXCEPT ![s] = id]
                  ELSE conversation_memory @@ (s :> id)
           /\ heap' = Collect(heap @@ (id :> <<>>), conversation_memory', thread)
    /\ thread' = [thread EXCEPT ![t].pc = "l294"]
    /\ UNCHANGED <<app, rag_pipeline, vectorstore, collection, request, response, ingest,
                   call_log, cleared, search,
                   external_calls, ingested, docs>>

\* line 294: `return self.conversation_memory[session_id]`, a second look-up
t_return(t) ==
    /\ thread[t].pc = "l294"
    /\ LET s == thread[t].session_id
       IN  thread' = IF s \in DOMAIN conversation_memory
                     THEN [thread EXCEPT ![t].pc = "l331",
                                         ![t].memory = conversation_memory[s]]
                     ELSE [thread EXCEPT ![t].pc = "raised", ![t].failed = TRUE]
    /\ UNCHANGED <<app, rag_pipeline, vectorstore, collection, conversation_memory, heap,
                   request, response, ingest, call_log, cleared, search,
                   external_calls, ingested, docs>>

\* lines 320-333: the chain retrieves and asks the model; it raises or has an
\* answer. Without a store object, vectorstore.as_retriever raises.
t_chain(t) ==
    /\ thread[t].pc = "l331"
    /\ \E outcome \in {"ok", "raised"}, answer \in Answers :
        thread' = IF outcome = "ok" /\ vectorstore # "None"
                  THEN [thread EXCEPT ![t].pc = "save", ![t].answer = answer]
                  ELSE [thread EXCEPT ![t].pc = "raised", ![t].failed = TRUE]
    /\ UNCHANGED <<app, rag_pipeline, vectorstore, collection, conversation_memory, heap,
                   request, response, ingest, call_log, cleared, search,
                   external_calls, ingested, docs>>

\* the end of the chain's run: memory.save_context on the object the thread holds
t_save(t) ==
    /\ thread[t].pc = "save"
    /\ LET f == thread[t]
       IN  IF f.memory # 0
           THEN /\ heap' = save_context(heap, f.memory, f.question, f.answer)
                /\ call_log' = [call_log EXCEPT ![f.session_id] =
                                    Append(@, <<f.question, f.answer>>)]
           ELSE UNCHANGED <<heap, call_log>>
    /\ thread' = [thread EXCEPT ![t].pc = "returned"]
    /\ UNCHANGED <<app, rag_pipeline, vectorstore, collection, conversation_memory,
                   request, response, ingest, cleared, search,
                   external_calls, ingested, docs>>

\* the caller drops the frame
t_finish(t) ==
    /\ thread[t].pc \in {"returned", "raised"}
    /\ thread' = [thread EXCEPT ![t] = [IdleThreads[t] EXCEPT !.failed = thread[t].failed]]
    /\ heap' = Collect(heap, conversation_memory, thread')
    /\ UNCHANGED <<app, rag_pipeline, vectorstore, collection, conversation_memory,
                   request, response, ingest, call_log, cleared, search,
                   external_calls, ingested, docs>>

InitThreads ==
    /\ app = "serving"
    /\ rag_pipeline = TRUE
    /\ vectorstore = "Chroma"
    /\ collection = MaxChunks
    /\ conversation_memory = <<>>
    /\ heap = <<>>
    /\ request = NoRequest
    /\ response = NoResponse
    /\ ingest = [pc |-> "idle"]
    /\ call_log = [s \in Sessions |-> <<>>]
    /\ cleared = {}
    /\ thread = IdleThreads
    /\ search = NoSearch
    /\ external_calls = <<>>
    /\ ingested = NoIngested
    /\ docs = NoDocs

NextThreads ==
    \E t \in Threads :
        \/ \E q \in Questions, s \in Sessions \cup {NoSession} : t_call(t, q, s)
        \/ t_check(t)
        \/ t_create(t)
        \/ t_return(t)
        \/ t_chain(t)
        \/ t_save(t)
        \/ t_finish(t)

SpecThreads == InitThreads /\ [][NextThreads]_vars

-----------------------------------------------------------------------------
(* SpecClear: the threads of SpecThreads and calls of clear_session *)

\* clear_session(session_id) called on the pipeline while queries are in
\* flight: the test and the del of lines 380-381. The object stays on the heap
\* for as long as a query holds it.
t_clear(session_id) ==
    /\ LET r == clear_session(conversation_memory, session_id)
       IN  /\ conversation_memory' = r.cm
           /\ heap' = Collect(heap, r.cm, thread)
    /\ call_log' = [call_log EXCEPT ![session_id] = <<>>]
    /\ cleared' = cleared \cup {session_id}
    /\ request' = [op |-> "clear", question |-> "", session_id |-> session_id]
    /\ UNCHANGED <<app, rag_pipeline, vectorstore, collection, response, ingest, thread,
                   search, external_calls, ingested, docs>>

\* initialize_from_documents called on the pipeline, on a directory of
\* MaxChunks chunks, while the collection is empty
t_initialize(outcome) ==
    /\ collection = 0
    /\ LET r == initialize_from_documents(vectorstore, collection, MaxChunks, outcome)
       IN  /\ vectorstore' = r.vectorstore
           /\ collection' = r.collection
    /\ UNCHANGED <<app, rag_pipeline, conversation_memory, heap, request, response, ingest,
                   call_log, cleared, thread, search, external_calls, ingested, docs>>

\* load_existing called on the pipeline: load_vectorstore assigns a Chroma
\* object over the persist directory, whatever it holds
t_load_existing ==
    /\ vectorstore' = "Chroma"
    /\ UNCHANGED <<app, rag_pipeline, collection, conversation_memory, heap, request,
                   response, ingest, call_log, cleared, thread, search, external_calls,
                   ingested, docs>>

\* a pipeline just built: no store object, no session
InitClear ==
    /\ app = "serving"
    /\ rag_pipeline = TRUE
    /\ vectorstore = "None"
    /\ collection = 0
    /\ conversation_memory = <<>>
    /\ heap = <<>>
    /\ request = NoRequest
    /\ response = NoResponse
    /\ ingest = [pc |-> "idle"]
    /\ call_log = [s \in Sessions |-> <<>>]
    /\ cleared = {}
    /\ thread = IdleThreads
    /\ search = NoSearch
    /\ external_calls = <<>>
    /\ ingested = NoIngested
    /\ docs = NoDocs

\* every thread makes one call of query and keeps its frame
NextClear ==
    \/ \E t \in Threads :
          \/ \E q \in Questions, s \in Sessions \cup {NoSession} : t_call(t, q, s)
          \/ t_check(t)
          \/ t_create(t)
          \/ t_return(t)
          \/ t_chain(t)
          \/ t_save(t)
    \/ \E s \in Sessions : t_clear(s)
    \/ \E outcome \in IngestOutcomes : t_initialize(outcome)
    \/ t_load_existing

SpecClear == InitClear /\ [][NextClear]_vars

----------------------------------------------------------------------------
(* SpecSearch: VectorStore.similarity_search on any index of up to         *)
(* MaxChunks chunks, dist[c] being the distance of chunk c from the query   *)

similarity_search_call(dist, k) ==
    /\ search' = [dist |-> dist, k |-> k, results |-> similarity_search(dist, k)]
    /\ UNCHANGED <<app, rag_pipeline, vectorstore, collection, conversation_memory, heap,
                   request, response, ingest, call_log, cleared, thread,
                   external_calls, ingested, docs>>

InitSearch ==
    /\ app = "serving"
    /\ rag_pipeline = TRUE
    /\ vectorstore = "Chroma"
    /\ collection = 0
    /\ conversation_memory = <<>>
    /\ heap = <<>>
    /\ request = NoRequest
    /\ response = NoResponse
    /\ ingest = [pc |-> "idle"]
    /\ call_log = [s \in Sessions |-> <<>>]
    /\ cleared = {}
    /\ thread = IdleThreads
    /\ search = NoSearch
    /\ external_calls = <<>>
    /\ ingested = NoIngested
    /\ docs = NoDocs

NextSearch ==
    \E n \in 0..MaxChunks, k \in 0..MaxK :
        \E dist \in [1..n -> Scores] : similarity_search_call(dist, k)

SpecSearch == InitSearch /\ [][NextSearch]_vars

----------------------------------------------------------------------------
(* SpecIngest: RAGPipeline.initialize_from_documents (lines 262-271) called *)
(* again and again on one pipeline, with one directory that does not        *)
(* change and whose documents yield ingested.directory chunks.  Each call   *)
(* is recorded with the store before and after it.                          *)

initialize_call(outcome) ==
    /\ Len(ingested.calls) < MaxIngestCalls
    /\ LET r == initialize_from_documents(vectorstore, collection, ingested.directory, outcome)
       IN  /\ vectorstore' = r.vectorstore
           /\ collection' = r.collection
           /\ ingested' = [ingested EXCEPT !.calls = Append(@,
                  [outcome |-> outcome, raised |-> r.raised,
                   before |-> [vectorstore |-> vectorstore, collection |-> collection],
                   after |-> [vectorstore |-> r.vectorstore, collection |-> r.collection]])]
    /\ UNCHANGED <<app, rag_pipeline, conversation_memory, heap, request, response, ingest,
                   call_log, cleared, thread, search, external_calls, docs>>

\* a pipeline just built, or one that has loaded the persisted collection
InitIngest ==
    /\ app = "serving"
    /\ rag_pipeline = TRUE
    /\ vectorstore \in {"None", "Chroma"}
    /\ collection \in {0, MaxChunks}
    /\ conversation_memory = <<>>
    /\ heap = <<>>
    /\ request = NoRequest
    /\ response = NoResponse
    /\ ingest = [pc |-> "idle"]
    /\ call_log = [s \in Sessions |-> <<>>]
    /\ cleared = {}
    /\ thread = IdleThreads
    /\ search = NoSearch
    /\ external_calls = <<>>
    /\ ingested \in [directory : 0..MaxChunks, calls : {<<>>}]
    /\ docs = NoDocs

NextIngest == \E outcome \in IngestOutcomes : initialize_call(outcome)

SpecIngest == InitIngest /\ [][NextIngest]_vars

----------------------------------------------------------------------------
(* SpecLoad: DocumentProcessor.load_documents_from_directory (lines 72-107) *)
(* on arbitrary directory trees: the initial state holds the tree, the     *)
(* one step is the call.  A text is a sequence of characters.               *)

Whitespace == {" ", "\n"}

\* a text that holds a special token of the tokenizer, as one character
SpecialToken == "<|endoftext|>"

\* what a file holds: a text, or the exception that opening or reading it raises
FileData ==
    [error : {""}, text : {<<"a", " ", "b">>, <<"a", SpecialToken>>}]
      \cup [error : {"OSError", "UnicodeDecodeError"}, text : {<<>>}]

\* the files os.walk visits: its root, its name, what it holds
WalkEntries == [root : {".", "sub"}, file : {"a.md", "c.md", "b.txt"}, data : FileData]

\* os.walk(directory_path) in visiting order; a path occurs once
Walks ==
    {w \in UNION {[1..n -> WalkEntries] : n \in 0..MaxFiles} :
        \A i, j \in DOMAIN w : (w[i].root = w[j].root /\ w[i].file = w[j].file) => i = j}

\* str.endswith for the names of the model
endswith(file, suffix) ==
    \/ file \in {"a.md", "c.md"} /\ suffix = ".md"
    \/ file = "b.txt" /\ suffix = ".txt"

\* open(file_path, 'r', encoding='utf-8') and f.read()
read(entry) ==
    IF entry.data.error # ""
    THEN [raised |-> TRUE, content |-> <<>>]
    ELSE [raised |-> FALSE, content |-> entry.data.text]

\* tiktoken Encoding.encode with its defaults: text that holds a special token
\* is refused with ValueError; the model counts one token per word
encode(content) ==
    IF \E i \in DOMAIN content : content[i] = SpecialToken
    THEN [raised |-> TRUE, tokens |-> 0]
    ELSE [raised |-> FALSE,
          tokens |-> Cardinality({i \in DOMAIN content :
                         /\ content[i] \notin Whitespace
                         /\ (i = 1 \/ content[i - 1] \in Whitespace)})]

\* the body of the try block, lines 88-103
Document(directory_path, entry) ==
    [page_content |-> read(entry).content,
     metadata |-> [source |-> <<entry.root, entry.file>>,
                   file_path |-> <<directory_path, entry.root, entry.file>>,
                   file_name |-> entry.file,
                   tokens |-> encode(read(entry).content).tokens]]

\* the try/except left out: the first failure leaves the method
RECURSIVE load_documents_from_directory_no_except(_, _)
load_documents_from_directory_no_except(directory_path, walk) ==
    IF walk = <<>>
    THEN [raised |-> FALSE, documents |-> <<>>]
    ELSE IF ~endswith(Head(walk).file, ".md")
    THEN load_documents_from_directory_no_except(directory_path, Tail(walk))
    ELSE IF read(Head(walk)).raised \/ encode(read(Head(walk)).content).raised
    THEN [raised |-> TRUE, documents |-> <<>>]
    ELSE LET rest == load_documents_from_directory_no_except(directory_path, Tail(walk))
         IN  [raised |-> rest.raised,
              documents |-> IF rest.raised THEN <<>>
                            ELSE <<Document(directory_path, Head(walk))>> \o rest.documents]

\* walk is what os.walk(directory_path) yields
RECURSIVE load_documents_from_directory(_, _)
load_documents_from_directory(directory_path, walk) ==
    IF walk = <<>>
    THEN [raised |-> FALSE, documents |-> <<>>]
    ELSE LET rest == load_documents_from_directory(directory_path, Tail(walk))
         IN  IF ~endswith(Head(walk).file, ".md")
             THEN rest
             ELSE IF read(Head(walk)).raised \/ encode(read(Head(walk)).content).raised
             THEN rest
             ELSE [raised |-> rest.raised,
                   documents |-> <<Document(directory_path, Head(walk))>> \o rest.documents]

\* process_documents, line 149: the loader is called on the directory
load_call ==
    /\ docs.op = "directory"
    /\ docs' = [op |-> "load", input |-> docs.input,
                output |-> load_documents_from_directory("docs", docs.input)]
    /\ UNCHANGED <<app, rag_pipeline, vectorstore, collection, conversation_memory, heap,
                   request, response, ingest, call_log, cleared, thread, search,
                   external_calls, ingested>>

InitLoad ==
    /\ app = "starting"
    /\ rag_pipeline = FALSE
    /\ vectorstore = "None"
    /\ collection = 0
    /\ conversation_memory = <<>>
    /\ heap = <<>>
    /\ request = NoRequest
    /\ response = NoResponse
    /\ ingest = [pc |-> "idle"]
    /\ call_log = [s \in Sessions |-> <<>>]
    /\ cleared = {}
    /\ thread = IdleThreads
    /\ search = NoSearch
    /\ external_calls = <<>>
    /\ ingested = NoIngested
    /\ docs \in [op : {"directory"}, input : Walks, output : {<<>>}]

NextLoad == load_call

SpecLoad == InitLoad /\ [][NextLoad]_vars

----------------------------------------------------------------------------
(* SpecChunks: DocumentProcessor.chunk_documents (lines 109-135) with the   *)
(* RecursiveCharacterTextSplitter of lines 64-69 (keep_separator and        *)
(* strip_whitespace at their defaults, True), on arbitrary documents: the   *)
(* initial state holds the documents, the one step is the call.             *)

Alphabet == {"a", "b", " ", ".", "\n"}

\* separators=["\n\n", "\n", ". ", " ", ""]
separators == << <<"\n", "\n">>, <<"\n">>, <<".", " ">>, <<" ">>, <<>> >>

Min(S) == CHOOSE x \in S : \A y \in S : x <= y

\* where separator first occurs in text, 0 if nowhere
Find(text, separator) ==
    LET hits == {i \in 1..(Len(text) - Len(separator) + 1) :
                    SubSeq(text, i, i + Len(separator) - 1) = separator}
    IN  IF hits = {} THEN 0 ELSE Min(hits)

\* re.split: the texts between the occurrences of separator, leftmost first
RECURSIVE re_split(_, _)
re_split(text, separator) ==
    LET i == Find(text, separator)
    IN  IF i = 0
        THEN <<text>>
        ELSE <<SubSeq(text, 1, i - 1)>>
                 \o re_split(SubSeq(text, i + Len(separator), Len(text)), separator)

\* _split_text_with_regex with keep_separator: every piece but the first
\* starts with the separator; empty pieces are dropped
_split_text_with_regex(text, separator) ==
    IF separator = <<>>
    THEN [i \in 1..Len(text) |-> <<text[i]>>]
    ELSE LET parts == re_split(text, separator)
             splits == [i \in 1..Len(parts) |->
                           IF i = 1 THEN parts[1] ELSE separator \o parts[i]]
         IN  SelectSeq(splits, LAMBDA x : x # <<>>)

RECURSIVE lstrip(_)
lstrip(text) ==
    IF text # <<>> /\ Head(text) \in Whitespace THEN lstrip(Tail(text)) ELSE text

RECURSIVE rstrip(_)
rstrip(text) ==
    IF text # <<>> /\ text[Len(text)] \in Whitespace
    THEN rstrip(SubSeq(text, 1, Len(text) - 1))
    ELSE text

\* str.strip
strip(text) == rstrip(lstrip(text))

RECURSIVE Join(_)
Join(pieces) == IF pieces = <<>> THEN <<>> ELSE Head(pieces) \o Join(Tail(pieces))

\* only the first piece of the chunk is kept
_join_docs_first_piece(current_doc) ==
    IF current_doc = <<>> THEN <<>> ELSE strip(Head(current_doc))

\* _join_docs with the separator "": the pieces joined and stripped; the
\* empty text stands for None
_join_docs(current_doc) == strip(Join(current_doc))

\* the `while` of _merge_splits: pieces leave the front of current_doc until
\* no more than chunk_overlap characters stay and the next piece fits
RECURSIVE Pop(_, _, _)
Pop(current_doc, total, _len) ==
    IF total > chunk_overlap \/ (total + _len > chunk_size /\ total > 0)
    THEN Pop(Tail(current_doc), total - Len(Head(current_doc)), _len)
    ELSE [current_doc |-> current_doc, total |-> total]

\* the `for d in splits` of _merge_splits, from the piece Head(splits) on
RECURSIVE MergeFrom(_, _, _, _)
MergeFrom(splits, merged, current_doc, total) ==
    IF splits = <<>>
    THEN IF _join_docs(current_doc) # <<>>
         THEN Append(merged, _join_docs(current_doc))
         ELSE merged
    ELSE LET d == Head(splits)
         IN  IF total + Len(d) > chunk_size /\ Len(current_doc) > 0
             THEN LET kept == Pop(current_doc, total, Len(d))
                  IN  MergeFrom(Tail(splits),
                                IF _join_docs(current_doc) # <<>>
                                THEN Append(merged, _join_docs(current_doc))
                                ELSE merged,
                                Append(kept.current_doc, d),
                                kept.total + Len(d))
             ELSE MergeFrom(Tail(splits), merged, Append(current_doc, d), total + Len(d))

\* TextSplitter._merge_splits with the separator "" (keep_separator is set,
\* so the pieces carry their separators)
_merge_splits(splits) ==
    MergeFrom(splits, <<>>, <<>>, 0)

\* the first separator of the list that is "" or occurs in text
SeparatorIndex(text, seps) ==
    Min({i \in 1..Len(seps) : seps[i] = <<>> \/ Find(text, seps[i]) # 0} \cup {Len(seps)})

RECURSIVE _split_text(_, _)
RECURSIVE SplitLoop(_, _, _, _)

\* the `for s in splits` of _split_text: pieces shorter than chunk_size are
\* collected and merged, a longer one is split by the separators that remain
SplitLoop(splits, new_separators, _good_splits, final_chunks) ==
    IF splits = <<>>
    THEN IF _good_splits # <<>>
         THEN final_chunks \o _merge_splits(_good_splits)
         ELSE final_chunks
    ELSE IF Len(Head(splits)) < chunk_size
    THEN SplitLoop(Tail(splits), new_separators, Append(_good_splits, Head(splits)),
                   final_chunks)
    ELSE SplitLoop(Tail(splits), new_separators, <<>>,
                   (IF _good_splits # <<>>
                    THEN final_chunks \o _merge_splits(_good_splits)
                    ELSE final_chunks)
                     \o (IF new_separators = <<>>
                         THEN <<Head(splits)>>
                         ELSE _split_text(Head(splits), new_separators)))

\* RecursiveCharacterTextSplitter._split_text
_split_text(text, seps) ==
    LET i == SeparatorIndex(text, seps)
        new_separators == IF seps[i] = <<>> \/ Find(text, seps[i]) = 0
                          THEN <<>>
                          ELSE SubSeq(seps, i + 1, Len(seps))
    IN  SplitLoop(_split_text_with_regex(text, seps[i]), new_separators, <<>>, <<>>)

split_text(text) == _split_text(text, separators)

\* lines 124-132: the chunks of one document
chunks_of(doc) ==
    LET chunks == split_text(doc.page_content)
    IN  [i \in 1..Len(chunks) |->
            [page_content |-> chunks[i],
             metadata |-> [chunk_index |-> i - 1, total_chunks |-> Len(chunks)]
                              @@ doc.metadata]]

\* enumerate(chunks, 1): the positions counted from one
chunk_documents_from_one(documents) ==
    LET chunked == [d \in 1..Len(documents) |-> chunks_of(documents[d])]
    IN  Join([d \in 1..Len(documents) |->
                [i \in 1..Len(chunked[d]) |->
                    [chunked[d][i] EXCEPT !.metadata.chunk_index = i]]])

\* a position counter kept on the processor from one call to the next
chunk_documents_counting(documents) ==
    LET chunked == [d \in 1..Len(documents) |-> chunks_of(documents[d])]
    IN  Join([d \in 1..Len(documents) |->
                [i \in 1..Len(chunked[d]) |->
                    [chunked[d][i] EXCEPT !.metadata.chunk_index = @ + Len(docs.output)]]])

chunk_documents(documents) ==
    Join([d \in 1..Len(documents) |-> chunks_of(documents[d])])

chunk_call ==
    /\ docs.op = "documents"
    /\ docs' = [op |-> "chunk", input |-> docs.input, output |-> chunk_documents(docs.input)]
    /\ UNCHANGED <<app, rag_pipeline, vectorstore, collection, conversation_memory, heap,
                   request, response, ingest, call_log, cleared, thread, search,
                   external_calls, ingested>>

\* chunk_documents called once more on the list the first call was given:
\* the call reads page_content and metadata and builds new Documents, the
\* metadata of a chunk a new dict ({**doc.metadata, ...})
chunk_again ==
    /\ docs.op = "chunk"
    /\ docs' = [op |-> "chunk_again", input |-> docs.input,
                output |-> chunk_documents(docs.input)]
    /\ UNCHANGED <<app, rag_pipeline, vectorstore, collection, conversation_memory, heap,
                   request, response, ingest, call_log, cleared, thread, search,
                   external_calls, ingested>>

Texts == UNION {[1..n -> Alphabet] : n \in 0..MaxLen}

\* texts of the documents chunked together
SampleTexts == {<<>>, <<"a">>, <<"a", "b", " ", "a", "b">>, <<"a", ".", " ", "b", "\n", "a">>}

FileNames == <<"a.md", "c.md", "e.md", "g.md", "i.md">>

\* the document the loader makes of the i-th file of the directory
LoadedDocument(text, i) ==
    Document("docs", [root |-> ".", file |-> FileNames[i], data |-> [error |-> "", text |-> text]])

DocumentLists ==
    {<<LoadedDocument(t, 1)>> : t \in Texts}
      \cup UNION {{[i \in 1..n |-> LoadedDocument(ts[i], i)] : ts \in [1..n -> SampleTexts]} :
                     n \in 2..MaxDocs}

InitChunks ==
    /\ app = "starting"
    /\ rag_pipeline = FALSE
    /\ vectorstore = "None"
    /\ collection = 0
    /\ conversation_memory = <<>>
    /\ heap = <<>>
    /\ request = NoRequest
    /\ response = NoResponse
    /\ ingest = [pc |-> "idle"]
    /\ call_log = [s \in Sessions |-> <<>>]
    /\ cleared = {}
    /\ thread = IdleThreads
    /\ search = NoSearch
    /\ external_calls = <<>>
    /\ ingested = NoIngested
    /\ docs \in [op : {"documents"}, input : DocumentLists, output : {<<>>}]

NextChunks == chunk_call \/ chunk_again

SpecChunks == InitChunks /\ [][NextChunks]_vars

-----------------------------------------------------------------------------
(* SpecProcess: process_documents when the splitter raises on some document *)

\* chunk_documents when split_text (or the Document constructor) raises on the
\* documents at the positions in raising: the loop has no try/except, the
\* exception leaves the method and chunked_docs, a local, is lost
chunk_documents_raising(documents, raising) ==
    IF \E d \in 1..Len(documents) : d \in raising
    THEN [raised |-> TRUE, chunked_docs |-> <<>>]
    ELSE [raised |-> FALSE, chunked_docs |-> chunk_documents(documents)]

\* process_documents after the load, and initialize_from_documents around it:
\* neither catches; create_vectorstore is given the chunks only when
\* process_documents returned
process_documents(documents, raising) ==
    LET r == chunk_documents_raising(documents, raising)
    IN  [raised |-> r.raised,
         indexed |-> IF r.raised THEN <<>> ELSE r.chunked_docs,
         create_vectorstore |-> ~r.raised]

process_call ==
    /\ docs.op = "loaded"
    /\ docs' = [op |-> "process", input |-> docs.input, raising |-> docs.raising,
                output |-> process_documents(docs.input, docs.raising)]
    /\ UNCHANGED <<app, rag_pipeline, vectorstore, collection, conversation_memory, heap,
                   request, response, ingest, call_log, cleared, thread, search,
                   external_calls, ingested>>

\* the documents loaded from a directory of two files or more, and the
\* positions of those the splitter raises on
ProcessInputs ==
    UNION {{[op |-> "loaded", input |-> [i \in 1..n |-> LoadedDocument(ts[i], i)],
             raising |-> r, output |-> <<>>] :
               ts \in [1..n -> SampleTexts], r \in SUBSET (1..n)} : n \in 2..MaxDocs}

InitProcess ==
    /\ app = "starting"
    /\ rag_pipeline = FALSE
    /\ vectorstore = "None"
    /\ collection = 0
    /\ conversation_memory = <<>>
    /\ heap = <<>>
    /\ request = NoRequest
    /\ response = NoResponse
    /\ ingest = [pc |-> "idle"]
    /\ call_log = [s \in Sessions |-> <<>>]
    /\ cleared = {}
    /\ thread = IdleThreads
    /\ search = NoSearch
    /\ external_calls = <<>>
    /\ ingested = NoIngested
    /\ docs \in ProcessInputs

NextProcess == process_call

SpecProcess == InitProcess /\ [][NextProcess]_vars

-----------------------------------------------------------------------------
(* SpecReview: AICodeReviewer._parse_review_response and _create_comment     *)
(* (code-review-automation/ai_code_reviewer.py) on arbitrary responses.  A   *)
(* line of the response is a key and the text after its colon; a line        *)
(* without a key is its text.  The string conversions are given on the       *)
(* texts that occur.                                                         *)

ReviewLine(key, value) == [key |-> key, value |-> value]

ReviewLines ==
    {ReviewLine("SCORE", v) : v \in {" 150", " high"}}
      \cup {ReviewLine("LINE", v) : v \in {" 12", " general", " 7:3"}}
      \cup {ReviewLine("SEVERITY", v) : v \in {" HIGH", " blocker"}}
      \cup {ReviewLine("CATEGORY", v) : v \in {" security", " vuln"}}
      \cup {ReviewLine("MESSAGE", " m"), ReviewLine("RECOMMENDATION", " reject"),
            ReviewLine("", "---"), ReviewLine("", "")}

\* line.startswith(key + ":")
startswith(line, key) == line.key = key

\* the line split at every colon, without the key
split(value) == IF value = " 7:3" THEN <<" 7", "3">> ELSE <<value>>

\* str.strip()
str_strip(s) ==
    CASE s = " 150" -> "150" [] s = " high" -> "high"
      [] s = " 12" -> "12" [] s = " general" -> "general" [] s = " 7" -> "7"
      [] s = " HIGH" -> "HIGH"
      [] s = " blocker" -> "blocker" [] s = " security" -> "security"
      [] s = " vuln" -> "vuln" [] s = " m" -> "m" [] s = " reject" -> "reject"
      [] OTHER -> s

\* str.lower()
lower(s) == IF s = "HIGH" THEN "high" ELSE s

\* int(s): the number, or ValueError
int(s) ==
    CASE s = "150" -> [raised |-> FALSE, value |-> 150]
      [] s = "12" -> [raised |-> FALSE, value |-> 12]
      [] s = "7" -> [raised |-> FALSE, value |-> 7]
      [] s = "0" -> [raised |-> FALSE, value |-> 0]
      [] OTHER -> [raised |-> TRUE, value |-> 0]

\* the enums, a member written as its value; an unknown value is a ValueError
Severity(value) ==
    [raised |-> value \notin {"critical", "high", "medium", "low", "info"}, value |-> value]

Category(value) ==
    [raised |-> value \notin {"bug", "security", "performance", "maintainability", "style",
                              "best_practice", "documentation"},
     value |-> value]

\* dict.get(key, default)
get(data, key, default) == IF key \in DOMAIN data THEN data[key] ELSE default

\* data[key] = value
put(data, key, value) == (key :> value) @@ data

\* the enum constructors called without a try: an unknown value raises
_create_comment_no_default(data) ==
    LET line_num == int(get(data, "line", "0"))
        severity == Severity(lower(get(data, "severity", "medium")))
        category == Category(lower(get(data, "category", "bug")))
    IN  [raised |-> severity.raised \/ category.raised,
         comment |-> [line_number |-> IF line_num.raised THEN 0 ELSE line_num.value,
                      severity |-> severity.value,
                      category |-> category.value,
                      message |-> get(data, "message", "No message"),
                      suggestion |-> get(data, "suggestion", "None"),
                      code_snippet |-> get(data, "code", "None")]]

_create_comment(data) ==
    LET line_num == int(get(data, "line", "0"))
        severity == Severity(lower(get(data, "severity", "medium")))
        category == Category(lower(get(data, "category", "bug")))
    IN  [raised |-> FALSE,
         comment |-> [line_number |-> IF line_num.raised THEN 0 ELSE line_num.value,
                      severity |-> IF severity.raised THEN "medium" ELSE severity.value,
                      category |-> IF category.raised THEN "bug" ELSE category.value,
                      message |-> get(data, "message", "No message"),
                      suggestion |-> get(data, "suggestion", "None"),
                      code_snippet |-> get(data, "code", "None")]]

\* comments.append(self._create_comment(current_comment))
append_comment(st) ==
    LET c == _create_comment(st.current_comment)
    IN  IF c.raised THEN [st EXCEPT !.raised = TRUE]
        ELSE [st EXCEPT !.comments = Append(@, c.comment)]

\* one pass of the loop of lines 212-249
parse_line(line, st) ==
    IF startswith(line, "SCORE")
    THEN LET n == int(str_strip(split(line.value)[1]))
         IN  IF n.raised THEN st ELSE [st EXCEPT !.score = n.value]
    ELSE IF startswith(line, "LINE")
    THEN LET flushed == IF DOMAIN st.current_comment # {} THEN append_comment(st) ELSE st
         IN  [flushed EXCEPT !.current_comment =
                                 put(<<>>, "line", str_strip(split(line.value)[1]))]
    ELSE IF startswith(line, "SEVERITY")
    THEN [st EXCEPT !.current_comment = put(@, "severity", str_strip(split(line.value)[1]))]
    ELSE IF startswith(line, "CATEGORY")
    THEN [st EXCEPT !.current_comment = put(@, "category", str_strip(split(line.value)[1]))]
    ELSE IF startswith(line, "MESSAGE")
    THEN [st EXCEPT !.current_comment = put(@, "message", str_strip(line.value))]
    ELSE IF startswith(line, "SUGGESTION")
    THEN [st EXCEPT !.current_comment = put(@, "suggestion", str_strip(line.value))]
    ELSE IF startswith(line, "CODE")
    THEN [st EXCEPT !.current_comment = put(@, "code", str_strip(line.value))]
    ELSE IF startswith(line, "SUMMARY")
    THEN [st EXCEPT !.summary = str_strip(line.value)]
    ELSE IF startswith(line, "RECOMMENDATION")
    THEN [st EXCEPT !.recommendation = lower(str_strip(split(line.value)[1]))]
    ELSE IF line = ReviewLine("", "---") /\ DOMAIN st.current_comment # {}
    THEN [append_comment(st) EXCEPT !.current_comment = <<>>]
    ELSE st

RECURSIVE parse_lines(_, _, _)
parse_lines(lines, i, st) ==
    IF i > Len(lines) \/ st.raised THEN st
    ELSE parse_lines(lines, i + 1, parse_line(lines[i], st))

_parse_review_response(text) ==
    LET looped == parse_lines(text, 1,
                      [raised |-> FALSE, score |-> 70, comments |-> <<>>, summary |-> "",
                       recommendation |-> "approve_with_changes", current_comment |-> <<>>])
        st == IF ~looped.raised /\ DOMAIN looped.current_comment # {}
              THEN append_comment(looped)
              ELSE looped
    IN  [raised |-> st.raised,
         overall_score |-> st.score,
         comments |-> st.comments,
         summary |-> IF st.summary = "" THEN "Code review completed" ELSE st.summary,
         approval_recommended |-> st.recommendation \in {"approve", "approve_with_changes"}]

parse_call ==
    /\ docs.op = "response"
    /\ docs' = [op |-> "parse", input |-> docs.input,
                output |-> _parse_review_response(docs.input)]
    /\ UNCHANGED <<app, rag_pipeline, vectorstore, collection, conversation_memory, heap,
                   request, response, ingest, call_log, cleared, thread, search,
                   external_calls, ingested>>

Responses == UNION {[1..n -> ReviewLines] : n \in 0..MaxLines}

InitReview ==
    /\ app = "starting"
    /\ rag_pipeline = FALSE
    /\ vectorstore = "None"
    /\ collection = 0
    /\ conversation_memory = <<>>
    /\ heap = <<>>
    /\ request = NoRequest
    /\ response = NoResponse
    /\ ingest = [pc |-> "idle"]
    /\ call_log = [s \in Sessions |-> <<>>]
    /\ cleared = {}
    /\ thread = IdleThreads
    /\ search = NoSearch
    /\ external_calls = <<>>
    /\ ingested = NoIngested
    /\ docs \in [op : {"response"}, input : Responses, output : {<<>>}]

NextReview == parse_call

SpecReview == InitReview /\ [][NextReview]_vars

-----------------------------------------------------------------------------
(* SpecCI: review_files and main of                                          *)
(* code-review-automation/.github/scripts/ai_review.py on arbitrary file     *)
(* lists.  A file is what the script meets for its path: whether it exists,  *)
(* its suffix, what reading it gives, and what reviewer.review_code does on  *)
(* its content.  A comment is its severity.                                  *)

\* extension_map.get(ext, 'Unknown')
detect_language(suffix) ==
    CASE suffix = ".py" -> "Python"
      [] suffix = ".ts" -> "TypeScript"
      [] OTHER -> "Unknown"

\* read_file_content: the text, or "" when open or read raises
read_file_content(file) == IF file.data.error THEN "" ELSE file.data.text

\* scores as _parse_review_response returns them, 150 being one out of range
ReviewScores == {0, 69, 70, 71, 100, 150}

ReviewComments == {<<>>, <<"critical">>, <<"high", "medium">>}

\* what review_code does: it raises (the API call, or the parse of a response
\* without content), or returns a ReviewResult
ReviewOutcomes ==
    {[raised |-> TRUE, overall_score |-> 0, comments |-> <<>>]}
      \cup {[raised |-> FALSE, overall_score |-> sc, comments |-> c] :
                sc \in ReviewScores, c \in ReviewComments}

SourceFile(review) ==
    [exists |-> TRUE, suffix |-> ".py", data |-> [error |-> FALSE, text |-> "code"],
     review |-> review]

\* a file the loop skips before it asks for a review
Reviewable == SourceFile([raised |-> FALSE, overall_score |-> 0, comments |-> <<"critical">>])

ChangedFiles ==
    {SourceFile(r) : r \in ReviewOutcomes}
      \cup {[Reviewable EXCEPT !.exists = FALSE],
            [Reviewable EXCEPT !.suffix = ".md"],
            [Reviewable EXCEPT !.data = [error |-> FALSE, text |-> ""]],
            [Reviewable EXCEPT !.data = [error |-> TRUE, text |-> "code"]]}

\* one pass of the loop of lines 74-113
review_file(file, st) ==
    IF ~file.exists THEN st
    ELSE IF detect_language(file.suffix) = "Unknown" THEN st
    ELSE IF read_file_content(file) = "" THEN st
    ELSE IF file.review.raised THEN st
    ELSE LET result == file.review
         IN  [total_score |-> st.total_score + result.overall_score,
              num_files |-> st.num_files + 1,
              all_comments |-> st.all_comments \o result.comments,
              critical_count |-> st.critical_count
                                   + Len(SelectSeq(result.comments, LAMBDA c : c = "critical")),
              high_count |-> st.high_count
                               + Len(SelectSeq(result.comments, LAMBDA c : c = "high"))]

RECURSIVE review_loop(_, _, _)
review_loop(files, i, st) ==
    IF i > Len(files) THEN st
    ELSE review_loop(files, i + 1, review_file(files[i], st))

review_files(files) ==
    LET st == review_loop(files, 1, [total_score |-> 0, num_files |-> 0, all_comments |-> <<>>,
                                     critical_count |-> 0, high_count |-> 0])
        avg_score == st.total_score \div st.num_files
    IN  IF st.num_files = 0
        THEN [overall_score |-> 100, total_files |-> 0, comments |-> <<>>,
              critical_issues |-> 0, high_issues |-> 0, approval_recommended |-> TRUE]
        ELSE [overall_score |-> avg_score, total_files |-> st.num_files,
              comments |-> st.all_comments,
              critical_issues |-> st.critical_count, high_issues |-> st.high_count,
              approval_recommended |-> st.critical_count = 0 /\ avg_score >= 70]

NoResults ==
    [overall_score |-> 0, total_files |-> 0, comments |-> <<>>, critical_issues |-> 0,
     high_issues |-> 0, approval_recommended |-> FALSE]

\* a score equal to the threshold fails the run
main_strict(files) ==
    IF files = <<>>
    THEN [exit |-> 0, reviewed |-> FALSE, results |-> NoResults]
    ELSE LET results == review_files(files)
         IN  [exit |-> IF results.critical_issues > 0 THEN 1
                       ELSE IF results.overall_score <= 70 THEN 1
                       ELSE 0,
              reviewed |-> TRUE,
              results |-> results]

\* main after the arguments are parsed; the two files it writes are written
main(files) ==
    IF files = <<>>
    THEN [exit |-> 0, reviewed |-> FALSE, results |-> NoResults]
    ELSE LET results == review_files(files)
         IN  [exit |-> IF results.critical_issues > 0 THEN 1
                       ELSE IF results.overall_score < 70 THEN 1
                       ELSE 0,
              reviewed |-> TRUE,
              results |-> results]

main_call ==
    /\ docs.op = "files"
    /\ docs' = [op |-> "main", input |-> docs.input, output |-> main(docs.input)]
    /\ UNCHANGED <<app, rag_pipeline, vectorstore, collection, conversation_memory, heap,
                   request, response, ingest, call_log, cleared, thread, search,
                   external_calls, ingested>>

FileLists == UNION {[1..n -> ChangedFiles] : n \in 0..MaxReviewed}

InitCI ==
    /\ app = "starting"
    /\ rag_pipeline = FALSE
    /\ vectorstore = "None"
    /\ collection = 0
    /\ conversation_memory = <<>>
    /\ heap = <<>>
    /\ request = NoRequest
    /\ response = NoResponse
    /\ ingest = [pc |-> "idle"]
    /\ call_log = [s \in Sessions |-> <<>>]
    /\ cleared = {}
    /\ thread = IdleThreads
    /\ search = NoSearch
    /\ external_calls = <<>>
    /\ ingested = NoIngested
    /\ docs \in [op : {"files"}, input : FileLists, output : {<<>>}]

NextCI == main_call

SpecCI == InitCI /\ [][NextCI]_vars

----------------------------------------------------------------------------
(* Properties *)

Range(seq) == {seq[i] : i \in 1..Len(seq)}

Count(seq, x) == Cardinality({i \in 1..Len(seq) : seq[i] = x})

LastN(seq, n) ==
    IF Len(seq) <= n THEN seq ELSE SubSeq(seq, Len(seq) - n + 1, Len(seq))

QueryOk == request.op = "query" /\ response.status = 200

\* a step in which a query request is handled
QueryStep == request'.op = "query" /\ ingest' = ingest /\ app' = app

\* the confidence the specification gives for n sources
ConfidenceOf(n) ==
    IF n = 0 THEN 0 ELSE IF n = 1 THEN 5 ELSE IF n = 2 THEN 7 ELSE 9

\* the lists of source documents the retriever can produce
SourceLists ==
    {as_retriever(Distances(q, n)) : q \in Questions, n \in 0..MaxChunks}

\* C1: the confidence of a successful query is the table value of the number
\* of its source documents (0 -> 0.0, 1 -> 0.5, 2 -> 0.7, 3 or more -> 0.9);
\* the confidence is strictly increasing over the counts 0..3 and two source
\* lists of equal length get the same confidence whatever they hold.
C1_ConfidenceByCount ==
    /\ QueryOk => response.confidence = ConfidenceOf(Len(response.sources))
    /\ \A d1, d2 \in SourceLists :
        /\ Len(d1) = Len(d2) => _calculate_confidence(d1) = _calculate_confidence(d2)
        /\ Len(d1) < Len(d2) => _calculate_confidence(d1) < _calculate_confidence(d2)
    /\ \A d \in SourceLists : _calculate_confidence(d) = ConfidenceOf(Len(d))

\* a query answered from three sources, and another list of three sources
\* with other contents
C1_Witness ==
    /\ QueryOk
    /\ Len(response.sources) = 3
    /\ response.confidence = 9
    /\ \E d \in SourceLists : Len(d) = 3 /\ d # response.sources

\* C2: a session never holds more than max_history_length turns, and once
\* more than that many were appended it holds the most recent
\* max_history_length of them, oldest first.
C2_BoundedHistory ==
    \A s \in DOMAIN conversation_memory :
        /\ Len(History(s)) <= max_history_length
        /\ Len(call_log[s]) > max_history_length =>
               History(s) = LastN(call_log[s], max_history_length)

\* C3: a query handled while the index holds nothing is refused as not ready
\* (503); it is neither answered nor failed as a generic error.
C3_NotReadyPropagation ==
    (request.op = "query" /\ QueryRequest(request.question) /\ collection = 0) =>
        response.status = 503

\* C4: every query that has obtained the memory of its session holds the
\* object the session map stores for that session.
C4_SingleWinner ==
    \A t \in Threads :
        thread[t].memory # 0 =>
            /\ thread[t].session_id \in DOMAIN conversation_memory
            /\ conversation_memory[thread[t].session_id] = thread[t].memory

\* C5: when every query made has succeeded and none is in flight any more,
\* the history stored for a session holds the turn of every one of them.
C5_NoLostUpdates ==
    (InFlight = {} /\ \A t \in Threads : ~thread[t].failed) =>
        \A s \in Sessions : \A turn \in Range(call_log[s]) :
            /\ s \in DOMAIN conversation_memory
            /\ Count(History(s), turn) = Count(call_log[s], turn)

\* C6: a session is Absent (not in the map) or Active (in the map, with a
\* history).  A successful query leaves its session Active, a clear leaves it
\* Absent, nothing but a query of the session makes it Active and nothing but
\* a clear of it makes it Absent, and a successful query on an Absent session
\* leaves it with exactly the turn of that query.
C6_Step(s) ==
    /\ (s \in DOMAIN conversation_memory') => conversation_memory'[s] \in DOMAIN heap'
    /\ (request'.op = "query" /\ request'.session_id = s /\ response'.status = 200) =>
           s \in DOMAIN conversation_memory'
    /\ (request'.op = "clear" /\ request'.session_id = s) =>
           s \notin DOMAIN conversation_memory'
    /\ (s \notin DOMAIN conversation_memory /\ s \in DOMAIN conversation_memory') =>
           request'.op = "query" /\ request'.session_id = s
    /\ (s \in DOMAIN conversation_memory /\ s \notin DOMAIN conversation_memory') =>
           request'.op = "clear" /\ request'.session_id = s
    /\ (s \notin DOMAIN conversation_memory /\ request'.op = "query"
           /\ request'.session_id = s /\ response'.status = 200) =>
           History(s)' = << <<request'.question, response'.answer>> >>

C6_SessionLifecycle == [][\A s \in Sessions : C6_Step(s)]_vars

\* the first successful query on a session after it was cleared
C6_Witness ==
    /\ QueryOk
    /\ request.session_id \in cleared
    /\ request.session_id \in DOMAIN conversation_memory
    /\ History(request.session_id) = << <<request.question, response.answer>> >>

\* C7: a clear is always acknowledged, leaves the session absent and every
\* other session as it was, changes nothing when the session was absent, and
\* a second clear of the same session changes nothing more.
C7_Step ==
    request'.op = "clear" =>
        LET x == request'.session_id
            once == clear_session(conversation_memory, x)
            twice == clear_session(once.cm, x)
        IN  /\ response'.status = 200
            /\ x \notin DOMAIN conversation_memory'
            /\ x \notin DOMAIN conversation_memory =>
                   conversation_memory' = conversation_memory /\ heap' = heap
            /\ ~once.raised /\ ~twice.raised /\ twice.cm = once.cm
            /\ ~clear_session(conversation_memory', x).raised
            /\ clear_session(conversation_memory', x).cm = conversation_memory'

C7_IdempotentClear == [][C7_Step]_vars

\* a clear of a session that is absent and was never cleared while present,
\* with another session active
C7_Witness ==
    /\ request.op = "clear"
    /\ response.status = 200
    /\ request.session_id \notin cleared
    /\ request.session_id \notin DOMAIN conversation_memory
    /\ DOMAIN conversation_memory # {}

\* C8: while no more than max_history_length queries on a session have
\* succeeded since it was absent, its history is exactly their turns, in
\* call order.
C8_TurnsInCallOrder ==
    \A s \in Sessions :
        (call_log[s] # <<>> /\ Len(call_log[s]) <= max_history_length) =>
            /\ s \in DOMAIN conversation_memory
            /\ History(s) = call_log[s]

\* three queries in a row on one session, not all the same
C8_Witness ==
    \E s \in DOMAIN conversation_memory :
        /\ Len(call_log[s]) = 3
        /\ History(s) = call_log[s]
        /\ call_log[s][1] # call_log[s][2]

\* C9: every source of a successful query scores at least similarity_threshold.
C9_ThresholdInQuery ==
    QueryOk =>
        \A i \in 1..Len(response.sources) :
            Distance(request.question, response.sources[i]) >= similarity_threshold

\* C10: similarity_search returns exactly the candidates among the k nearest
\* that score at least similarity_threshold, at most k of them, ordered by
\* score descending.
C10_SimilaritySearch ==
    LET kk == IF search.k = 0 THEN top_k_results ELSE search.k
        nearest == similarity_search_with_score(search.dist, kk)
        r == search.results
    IN  /\ Range(r) = {x \in Range(nearest) : x.score >= similarity_threshold}
        /\ Len(r) = Cardinality(Range(r))
        /\ Len(r) <= kk
        /\ \A i, j \in 1..Len(r) : i < j => r[i].score >= r[j].score

\* the questions the Query API excludes: empty, or longer than 1000 characters
C11_Invalid(question) == len(question) = 0 \/ len(question) > 1000

\* C11: a query whose question is empty or longer than 1000 characters is
\* answered with a validation error (422); no retriever, embedding or
\* language-model call is made for it and the session map and the histories
\* stay as they were.
C11_Step ==
    (QueryStep /\ C11_Invalid(request'.question)) =>
        /\ response'.status = 422
        /\ external_calls' = <<>>
        /\ conversation_memory' = conversation_memory
        /\ heap' = heap

C11_ValidationFirst == [][C11_Step]_vars

\* an overlong question sent with the id of an absent session to a server
\* that is ready and holds another session: refused, the session not created
C11_Witness ==
    /\ request.op = "query"
    /\ request.question = "q1001"
    /\ response.status = 422
    /\ vectorstore = "Chroma"
    /\ request.session_id \in Sessions \ DOMAIN conversation_memory
    /\ conversation_memory # <<>>

\* C12: a query that fails in retrieval or in synthesis (500) leaves the
\* session map and every history as they were: no turn is appended and no
\* session is created.
C12_Step ==
    (QueryStep /\ response'.status = 500) =>
        /\ conversation_memory' = conversation_memory
        /\ heap' = heap

C12_FailedQueryAllOrNothing == [][C12_Step]_vars

\* the files the loader is to return: named *.md, and read without an error
C13_Readable(walk) ==
    SelectSeq(walk, LAMBDA f : endswith(f.file, ".md") /\ ~read(f).raised)

\* the same, less the files whose text the tokenizer refuses
C13_Loadable(walk) ==
    SelectSeq(walk, LAMBDA f : /\ endswith(f.file, ".md")
                               /\ ~read(f).raised
                               /\ ~encode(f.data.text).raised)

\* the documents are those of the files expected, in visiting order
C13_Returned(expected) ==
    /\ ~docs.output.raised
    /\ Len(docs.output.documents) = Len(expected)
    /\ \A i \in DOMAIN expected :
        /\ docs.output.documents[i].page_content = expected[i].data.text
        /\ docs.output.documents[i].metadata.source = <<expected[i].root, expected[i].file>>

\* C13 as claimed: load_documents_from_directory never raises and returns
\* one document for every *.md file that can be read and decoded, in visiting
\* order, whatever happens on the other files.
C13_ReadableFilesLoaded ==
    docs.op = "load" => C13_Returned(C13_Readable(docs.input))

\* C13, amended: load_documents_from_directory never raises and returns one
\* document for every *.md file that can be read, decoded and tokenized, in
\* visiting order; a failure of any of the three on a file omits that file only.
C13_LoadableFilesLoaded ==
    docs.op = "load" => C13_Returned(C13_Loadable(docs.input))

\* a file that cannot be read, visited between two files that are returned
C13_Witness ==
    /\ docs.op = "load"
    /\ Len(docs.input) = 3
    /\ docs.input[2].data.error = "OSError"
    /\ endswith(docs.input[2].file, ".md")
    /\ Len(docs.output.documents) = 2

\* C14: a call of initialize_from_documents that fails while the chunks are
\* embedded or written (from_documents or persist raises) raises to its
\* caller and leaves the store reference of the pipeline as it was before
\* the call: not ready stays not ready.
C14_FailedIngestLeavesStore ==
    \A i \in DOMAIN ingested.calls :
        ingested.calls[i].outcome \in {"embedding_error", "persist_error"} =>
            /\ ingested.calls[i].raised
            /\ ingested.calls[i].after.vectorstore = ingested.calls[i].before.vectorstore

\* a step in which POST /ingest is handled
IngestStep == request'.op = "ingest" /\ ingest.pc = "idle"

\* C15: an ingest request is acknowledged (200) with the task still to run
\* and the store untouched; while the task runs the server is serving, and a
\* query, health or clear request handled then is answered with the task
\* still running; when the task ends, with whatever outcome, no response is
\* produced or changed: it shows in the store only.
C15_Step ==
    /\ (IngestStep /\ rag_pipeline) =>
           /\ response'.status = 200
           /\ ingest'.pc = "running"
           /\ vectorstore' = vectorstore
           /\ collection' = collection
    /\ ingest.pc = "running" => app = "serving"
    /\ (ingest.pc = "running" /\ request'.op \in {"query", "health", "clear"}
           /\ <<request, response>>' # <<request, response>>) =>
           /\ ingest'.pc = "running"
           /\ response'.status \in {200, 422, 500, 503}
           /\ vectorstore' = vectorstore
    /\ (ingest.pc = "running" /\ ingest'.pc = "idle") =>
           /\ request' = request
           /\ response' = response
           /\ UNCHANGED <<app, rag_pipeline, conversation_memory, heap, external_calls>>

C15_NonBlockingIngest == [][C15_Step]_vars

\* a query answered while the ingestion task is still running
C15_Witness ==
    /\ ingest.pc = "running"
    /\ request.op = "query"
    /\ response.status = 200

\* C16: startup fails only when the pipeline cannot be built, not when the
\* index cannot be loaded; while the store is None a valid query is refused
\* as not ready (503); a successful ingestion assigns the store, the store
\* stays assigned, and a valid query is then run (200, or 500 if the chain
\* fails) instead of refused.
C16_Step ==
    /\ (app = "starting" /\ app' = "failed") => ~rag_pipeline'
    /\ (app = "starting" /\ app' = "serving") => rag_pipeline'
    /\ (QueryStep /\ QueryRequest(request'.question) /\ vectorstore = "None") =>
           response'.status = 503
    /\ (QueryStep /\ QueryRequest(request'.question) /\ vectorstore # "None") =>
           response'.status \in {200, 500}
    /\ ingest.pc = "running" =>
           \A n \in 0..MaxChunks :
               initialize_from_documents(vectorstore, collection, n, "ok").vectorstore # "None"
    /\ vectorstore # "None" => vectorstore' # "None"

C16_LoadFailureRecoverable == [][C16_Step]_vars

\* the query handled last was refused as not ready, so the index was not
\* loaded at startup; the ingestion that ran since has assigned the store
C16_Witness ==
    /\ request.op = "query"
    /\ response.status = 503
    /\ ingest.pc = "idle"
    /\ vectorstore = "Chroma"

\* C17: two successful calls in a row on the unchanged directory each add all
\* of its chunks again: when the collection was empty before the first, it
\* holds twice as many chunks after the second as after the first.
C17_RepeatedIngestDuplicates ==
    \A i \in DOMAIN ingested.calls :
        (i > 1 /\ ~ingested.calls[i - 1].raised /\ ~ingested.calls[i].raised) =>
            /\ ingested.calls[i].after.collection =
                   ingested.calls[i - 1].after.collection + ingested.directory
            /\ ingested.calls[i - 1].before.collection = 0 =>
                   ingested.calls[i].after.collection =
                       2 * ingested.calls[i - 1].after.collection

\* the directory ingested twice into an empty collection, both calls succeeding
C17_Witness ==
    /\ Len(ingested.calls) = 2
    /\ ingested.directory > 0
    /\ ingested.calls[1].before.collection = 0
    /\ ~ingested.calls[1].raised
    /\ ~ingested.calls[2].raised
    /\ collection = 2 * ingested.directory

\* the chunks of the output that come from the document `doc`
ChunksOf(doc) ==
    SelectSeq(docs.output, LAMBDA c : c.metadata.source = doc.metadata.source)

RECURSIVE SumOf(_)
SumOf(seq) == IF seq = <<>> THEN 0 ELSE Head(seq) + SumOf(Tail(seq))

\* C18: a document split into n chunks has exactly n chunks in the output,
\* next to each other and in the order of the split, with chunk_index 0, 1,
\* ..., n - 1 and total_chunks n, and source, file_path, file_name and tokens
\* as in the document; the chunks of an earlier document come first.
C18_ChunkPositionMetadata ==
    docs.op = "chunk" =>
        LET n == [d \in 1..Len(docs.input) |-> Len(split_text(docs.input[d].page_content))]
            first(d) == SumOf(SubSeq(n, 1, d - 1))
        IN  /\ Len(docs.output) = SumOf(n)
            /\ \A d \in 1..Len(docs.input) : \A i \in 1..n[d] :
                LET chunk == docs.output[first(d) + i]
                    doc == docs.input[d]
                IN  /\ chunk.page_content = split_text(doc.page_content)[i]
                    /\ chunk.metadata.chunk_index = i - 1
                    /\ chunk.metadata.total_chunks = n[d]
                    /\ \A key \in DOMAIN doc.metadata : chunk.metadata[key] = doc.metadata[key]
                    /\ DOMAIN chunk.metadata = DOMAIN doc.metadata \cup {"chunk_index", "total_chunks"}

\* three documents chunked together, the first and the last into two chunks
\* each, the second into none
C18_Witness ==
    /\ docs.op = "chunk"
    /\ Len(docs.input) = 3
    /\ Len(docs.output) = 4
    /\ docs.output[2].metadata.chunk_index = 1
    /\ docs.output[3].metadata.chunk_index = 0
    /\ docs.output[3].metadata.source = docs.input[3].metadata.source

\* C19: a document whose text is shorter than chunk_size, the empty text
\* included, yields exactly one chunk, with chunk_index 0 and total_chunks 1.
C19_ShortDocumentOneChunk ==
    docs.op = "chunk" =>
        \A d \in 1..Len(docs.input) :
            Len(docs.input[d].page_content) < chunk_size =>
                /\ Len(ChunksOf(docs.input[d])) = 1
                /\ ChunksOf(docs.input[d])[1].metadata.chunk_index = 0
                /\ ChunksOf(docs.input[d])[1].metadata.total_chunks = 1

\* the chunks from the i-th on can be laid on the text one after the other,
\* none starting before the one before it, each at a place where the text
\* reads as the chunk does, so that what lies between the end of the part
\* covered so far (covered) and the chunk, or after the last chunk, is
\* whitespace only
RECURSIVE Covers(_, _, _, _, _)
Covers(text, chunks, i, from, covered) ==
    IF i > Len(chunks)
    THEN \A j \in (covered + 1)..Len(text) : text[j] \in Whitespace
    ELSE \E p \in from..(Len(text) - Len(chunks[i]) + 1) :
            /\ SubSeq(text, p, p + Len(chunks[i]) - 1) = chunks[i]
            /\ \A j \in (covered + 1)..(p - 1) : text[j] \in Whitespace
            /\ Covers(text, chunks, i + 1, p,
                      IF p + Len(chunks[i]) - 1 > covered
                      THEN p + Len(chunks[i]) - 1
                      ELSE covered)

\* C20: every chunk of a document is at most chunk_size characters long, and
\* the chunks, laid on the text in their order with consecutive chunks
\* overlapping or adjoining, cover it: what no chunk covers is whitespace at
\* a chunk boundary.
C20_ChunkCoverage ==
    docs.op = "chunk" =>
        \A d \in 1..Len(docs.input) :
            LET chunks == [i \in 1..Len(ChunksOf(docs.input[d])) |->
                              ChunksOf(docs.input[d])[i].page_content]
            IN  /\ \A i \in DOMAIN chunks : Len(chunks[i]) <= chunk_size
                /\ Covers(docs.input[d].page_content, chunks, 1, 1, 0)

\* a text split at more than one level of separators into three chunks or
\* more, whitespace lost between two of them
C20_Witness ==
    /\ docs.op = "chunk"
    /\ Len(docs.input) = 1
    /\ Len(docs.output) >= 3
    /\ SumOf([i \in 1..Len(docs.output) |-> Len(docs.output[i].page_content)])
           < Len(docs.input[1].page_content)
    /\ \E i \in DOMAIN docs.input[1].page_content : docs.input[1].page_content[i] = "."

\* ---------------------------------------------------------------------------
\* C21: chunking is deterministic and leaves its input alone: a second call of
\* chunk_documents on the same list returns the same chunks, content and
\* metadata, in the same order, and the list is what it was before the call.
C21_Step ==
    (docs.op = "chunk" /\ docs'.op = "chunk_again")
        => /\ docs'.output = docs.output
           /\ docs'.input = docs.input

C22_CreatedSessionActive ==
    (request.op = "create" /\ response.status = 200)
        => /\ response.session_id \in DOMAIN conversation_memory
           /\ History(response.session_id) = <<>>
           /\ active_sessions >= 1

\* ---------------------------------------------------------------------------
\* the index is not ready for a query: no pipeline, no store, or a store that
\* holds no chunk
C23_NotReady == ~rag_pipeline \/ vectorstore = "None" \/ collection = 0

\* an external call made for the request raised
C23_Failed(calls) == \E i \in 1..Len(calls) : calls[i].raised

\* C23: the errors of a query are told apart and nothing is retried: an
\* invalid question is answered 422, a valid one on an index that is not ready
\* 503, one whose retriever or language-model call fails 500, none of them
\* 200; the call that failed is the last call made for the request.
C23_Step ==
    QueryStep =>
        LET invalid == C11_Invalid(request'.question)
            calls == external_calls'
        IN  /\ invalid => response'.status = 422
            /\ (~invalid /\ C23_NotReady) => response'.status = 503
            /\ (~invalid /\ ~C23_NotReady /\ C23_Failed(calls)) => response'.status = 500
            /\ response'.status = 200 => (~invalid /\ ~C23_NotReady /\ ~C23_Failed(calls))
            /\ \A i \in 1..Len(calls) : calls[i].raised => i = Len(calls)

C23_QueryErrorsDistinct == [][C23_Step]_vars

\* ---------------------------------------------------------------------------
\* the documents the splitter does not raise on, in their order
RECURSIVE C24_Others(_, _, _)
C24_Others(documents, raising, d) ==
    IF d > Len(documents) THEN <<>>
    ELSE (IF d \in raising THEN <<>> ELSE <<documents[d]>>)
            \o C24_Others(documents, raising, d + 1)

\* C24: a failure while one document is chunked skips that document only: the
\* ingestion does not fail, and the chunks of all the other documents are
\* produced, in order, and handed to the index.
C24_ChunkFailureSkipsDocument ==
    docs.op = "process" =>
        /\ ~docs.output.raised
        /\ docs.output.create_vectorstore
        /\ docs.output.indexed = chunk_documents(C24_Others(docs.input, docs.raising, 1))

\* ---------------------------------------------------------------------------
\* C25: a query without session_id leaves the session store as it was: no
\* session is created, no turn is appended to any history, and the response
\* carries no session_id.
C25_Step ==
    (QueryStep /\ request'.session_id = NoSession)
        => /\ conversation_memory' = conversation_memory
           /\ heap' = heap
           /\ response'.session_id = NoSession

C25_StatelessQueryFrame == [][C25_Step]_vars

\* a query without session_id run by the pipeline of a server that holds a
\* session with a turn
C25_Witness ==
    /\ request.op = "query"
    /\ request.session_id = NoSession
    /\ response.status \in {200, 500}
    /\ external_calls # <<>>
    /\ \E s \in DOMAIN conversation_memory : Len(History(s)) >= 1
    /\ Cardinality(DOMAIN conversation_memory) < Cardinality(Sessions)

\* ---------------------------------------------------------------------------
\* the step changes whether session B exists, or the history stored for it
C26_Changed(B) ==
    \/ (B \in DOMAIN conversation_memory) # (B \in DOMAIN conversation_memory')
    \/ /\ B \in DOMAIN conversation_memory
       /\ B \in DOMAIN conversation_memory'
       /\ heap'[conversation_memory'[B]] # heap[conversation_memory[B]]

\* C26: sessions are isolated: under every interleaving of queries, clears and
\* ingestion, the existence and the history of a session B change only in a
\* step of a query with session_id B or in a clear_session(B); a query or a
\* clear on another session A, initialize_from_documents and load_existing
\* leave B as it was.
C26_Step ==
    \A B \in Sessions :
        C26_Changed(B) =>
            \/ \E t \in Threads : thread'[t] # thread[t] /\ thread[t].session_id = B
            \/ /\ thread' = thread
               /\ request'.op = "clear"
               /\ request'.session_id = B
               /\ vectorstore' = vectorstore
               /\ collection' = collection

C26_SessionIsolation == [][C26_Step]_vars

\* session s1 was cleared after a query on it, documents were ingested, and
\* session s2 still holds its turn
C26_Witness ==
    /\ request.op = "clear"
    /\ request.session_id = "s1"
    /\ "s1" \notin DOMAIN conversation_memory
    /\ \E t \in Threads : thread[t].session_id = "s1" /\ thread[t].memory # 0
    /\ "s2" \in DOMAIN conversation_memory
    /\ Len(History("s2")) = 1
    /\ collection = MaxChunks

\* ---------------------------------------------------------------------------
\* C27: a clear wins over the queries in flight: once clear_session(s) has
\* returned, s is absent from the session map until a query with session_id s
\* begins after the clear; a query that had fetched the memory of s before the
\* clear does not put s back and does not change the history stored for s.
C27_Step ==
    /\ \A s \in cleared' : s \notin DOMAIN conversation_memory'
    /\ \A t \in Threads :
          LET s == thread[t].session_id
          IN  (thread'[t] # thread[t] /\ thread[t].memory # 0 /\ s \in cleared)
                  => ~C26_Changed(s)

C27_ClearWins == [][C27_Step]_vars

\* ---------------------------------------------------------------------------
\* C28: the overall_score of the ReviewResult parsed from any response lies in
\* 0..100: a SCORE line whose value is out of that range or is no integer
\* leaves the score at the default 70 or at an earlier valid value.
C28_ScoreInRange ==
    (docs.op = "parse" /\ ~docs.output.raised)
        => (docs.output.overall_score >= 0 /\ docs.output.overall_score <= 100)

\* ---------------------------------------------------------------------------
\* the lines of a block: a block is open at line i when a LINE: line comes
\* before it with no '---' in between
C29_Open(lines, i) ==
    \E p \in 1..(i - 1) :
        /\ lines[p].key = "LINE"
        /\ \A j \in (p + 1)..(i - 1) : lines[j] # ReviewLine("", "---")

\* every issue block begins with a LINE: line
C29_WellFormed(lines) ==
    \A i \in 1..Len(lines) :
        lines[i].key \in {"SEVERITY", "CATEGORY", "MESSAGE", "SUGGESTION", "CODE"}
            => C29_Open(lines, i)

\* the positions of the LINE: lines, in order
C29_LinePositions(lines) ==
    SelectSeq([i \in 1..Len(lines) |-> i], LAMBDA i : lines[i].key = "LINE")

\* the lines of the block that begins at position p
C29_Block(lines, p) ==
    {j \in (p + 1)..Len(lines) :
        \A m \in (p + 1)..j : lines[m].key # "LINE" /\ lines[m] # ReviewLine("", "---")}

\* the text the block gives for a key: that of its last line with the key
C29_Field(lines, p, key, default) ==
    LET js == {j \in C29_Block(lines, p) : lines[j].key = key}
    IN  IF js = {} THEN default
        ELSE str_strip(lines[CHOOSE j \in js : \A m \in js : m <= j].value)

\* C29: the parser emits each issue block once: for a response in which every
\* issue block begins with a LINE: line, parsing does not raise and returns one
\* ReviewComment per LINE: line, in the order of the lines, each with the
\* values of its own block (however the block ends) and with line number 0,
\* severity MEDIUM and category BUG where the value is not a known one.
C29_OneCommentPerBlock ==
    (docs.op = "parse" /\ C29_WellFormed(docs.input)) =>
        LET lines == docs.input
            ps == C29_LinePositions(lines)
            comments == docs.output.comments
        IN  /\ ~docs.output.raised
            /\ Len(comments) = Len(ps)
            /\ \A k \in 1..Len(ps) :
                  LET n == int(str_strip(split(lines[ps[k]].value)[1]))
                      sev == lower(C29_Field(lines, ps[k], "SEVERITY", "medium"))
                      cat == lower(C29_Field(lines, ps[k], "CATEGORY", "bug"))
                  IN  /\ comments[k].line_number = IF n.raised THEN 0 ELSE n.value
                      /\ comments[k].severity
                            = IF sev \in {"critical", "high", "medium", "low", "info"}
                              THEN sev ELSE "medium"
                      /\ comments[k].category
                            = IF cat \in {"bug", "security", "performance", "maintainability",
                                          "style", "best_practice", "documentation"}
                              THEN cat ELSE "bug"
                      /\ comments[k].message = C29_Field(lines, ps[k], "MESSAGE", "No message")

\* three blocks, the first ended by '---', the second by the next LINE: line,
\* the third by the end of the text; the second has no line number
C29_Witness ==
    /\ docs.op = "parse"
    /\ docs.input = <<ReviewLine("LINE", " 12"), ReviewLine("", "---"),
                      ReviewLine("LINE", " general"), ReviewLine("LINE", " 7:3")>>
    /\ Len(docs.output.comments) = 3
    /\ docs.output.comments[2].line_number = 0
    /\ docs.output.comments[3].line_number = 7

\* ---------------------------------------------------------------------------
\* the positions of the files that are reviewed: they exist, their language
\* is known, they have content and review_code returns for them
C30_Reviewed(files) ==
    {i \in 1..Len(files) :
        /\ files[i].exists
        /\ files[i].suffix \in {".py", ".ts"}
        /\ ~files[i].data.error
        /\ files[i].data.text # ""
        /\ ~files[i].review.raised}

RECURSIVE C30_Total(_, _)
C30_Total(files, S) ==
    IF S = {} THEN 0
    ELSE LET i == CHOOSE j \in S : TRUE
         IN  files[i].review.overall_score + C30_Total(files, S \ {i})

\* C30: the exit status of the review script agrees with its recommendation:
\* for a non-empty file list main exits 0 exactly when approval_recommended is
\* true, which is exactly when no reviewed file has a critical issue and the
\* integer average of the scores of the reviewed files is 70 or more; skipped
\* files count neither in total_files nor in the average; with no file
\* reviewed the result is score 100 and approved.
C30_ExitAgreesWithRecommendation ==
    (docs.op = "main" /\ docs.input # <<>>) =>
        LET files == docs.input
            reviewed == C30_Reviewed(files)
            n == Cardinality(reviewed)
            critical == \E i \in reviewed :
                            \E k \in 1..Len(files[i].review.comments) :
                                files[i].review.comments[k] = "critical"
            results == docs.output.results
        IN  /\ docs.output.reviewed
            /\ (docs.output.exit = 0) <=> results.approval_recommended
            /\ docs.output.exit \in {0, 1}
            /\ results.total_files = n
            /\ n = 0 => (results.overall_score = 100 /\ results.approval_recommended)
            /\ n > 0 =>
                  /\ results.overall_score = C30_Total(files, reviewed) \div n
                  /\ results.approval_recommended
                        <=> (~critical /\ C30_Total(files, reviewed) \div n >= 70)

\* three files, one skipped because its review raised and two reviewed with
\* scores 70 and 71: approved at the threshold, exit status 0
C30_Witness ==
    /\ docs.op = "main"
    /\ Len(docs.input) = 3
    /\ C30_Reviewed(docs.input) = {1, 3}
    /\ docs.input[2].review.raised
    /\ docs.output.results.total_files = 2
    /\ docs.output.results.overall_score = 70
    /\ docs.output.exit = 0

====
